---- MODULE Spec2Model ----
(***************************************************************************)
(* Model of src/main.py: the aiohttp webhook receiver, the asyncio work    *)
(* queue and the single worker task that clones, scans and notifies.       *)
(*                                                                         *)
(* Granularity: one action per stretch of code that the event loop runs    *)
(* without suspending, i.e. from one `await` that really suspends to the   *)
(* next.  Work handed to the default executor (clone, commit lookup,       *)
(* run_checks, rmtree) is an action of its own, taken when the thread      *)
(* finishes.                                                               *)
(*                                                                         *)
(* Names the file uses without binding them (PurePath l.45, tempfile l.55, *)
(* repo l.158) are taken to be provided and to behave as their library     *)
(* contract says; every call that can raise has a raising outcome, which   *)
(* is also what an unbound name produces.                                  *)
(*                                                                         *)
(* Strings are sequences of one-character strings.  The file lists of a    *)
(* commit record are drawn when the worker first reads the record (l.160): *)
(* nothing reads them earlier.  A local variable whose value is no longer  *)
(* read is reset, so that states differing only in dead values coincide.   *)
(***************************************************************************)
EXTENDS Integers, Sequences, FiniteSets, TLC

\* ---------------------------------------------------------------- bounds
MaxRequests == 2      \* webhook requests delivered in one behaviour
MaxCommits == 2       \* longest "commits" list of a push payload
MaxTotal == 4         \* characters written by all checkers together, run_checks taken alone

\* ---------------------------------------------------------------- strings
NEWLINE == "\n"
Whitespace == {" ", NEWLINE}

\* str.strip() of s is empty (falsy)
IsBlank(s) == \A i \in 1..Len(s) : s[i] \in Whitespace

StartsWith(s, p) == Len(s) >= Len(p) /\ SubSeq(s, 1, Len(p)) = p

\* str.replace(old, ""): leftmost, non-overlapping occurrences, one pass
RECURSIVE Replace(_, _)
Replace(s, old) ==
    IF s = <<>> \/ old = <<>> THEN s
    ELSE IF StartsWith(s, old)
         THEN Replace(SubSeq(s, Len(old) + 1, Len(s)), old)
         ELSE <<Head(s)>> \o Replace(Tail(s), old)

\* "\n".join(parts)
RECURSIVE Join(_)
Join(parts) ==
    IF parts = <<>> THEN <<>>
    ELSE IF Len(parts) = 1 THEN parts[1]
         ELSE parts[1] \o <<NEWLINE>> \o Join(Tail(parts))

\* Python's optional string: None, or a str
None == [is_none |-> TRUE, text |-> <<>>]
Str(s) == [is_none |-> FALSE, text |-> s]
Truthy(v) == ~v.is_none /\ v.text # <<>>

\* ---------------------------------------------------------------- run_checks
\* the three checker scripts, in declaration order
CHECKS == <<"pii_secret_filename", "pii_secret_file_content", "pii_secret_file_content_ner">>

\* the directory tempfile.mkdtemp() makes for the clone of payload d
DirPath(d) == <<"/", ToString(d)>>

\* str(base_path / PurePath(file_))
AbsFiles(project_path, files) == {project_path \o <<"/">> \o f : f \in files}

\* what one checker process may write to stdout: nothing, white space, or a
\* line naming a file it was given (a fixed line when it was given none)
CheckerStdout(abs_files) ==
    {<<>>, <<" ">>} \cup (IF abs_files = {} THEN {<<"x">>} ELSE abs_files)

\* which checker scripts may be absent from disk when run_checks runs
MissingChoices == {{}, {1}, 1..Len(CHECKS)}

\* the stdout of every checker process: for a script that does not exist the
\* interpreter (sys.executable, which does exist) prints to stderr and exits
\* with status 2, so subprocess.run returns with an empty stdout
Stdouts(abs_files, gone) ==
    {o \in [1..Len(CHECKS) -> CheckerStdout(abs_files)] : \A i \in gone : o[i] = <<>>}

\* mutant of run_checks: only the outputs that are the empty string are left out
run_checksKeepsWhitespace(project_path, command_output) ==
    LET output_text == Join(SelectSeq(command_output, LAMBDA o : o # <<>>))
    IN  IF output_text = <<>> THEN None
        ELSE Str(Replace(output_text, project_path))

\* run_checks, given the stdout of each checker (a sequence indexed like CHECKS)
run_checks(project_path, command_output) ==
    LET output_text == Join(SelectSeq(command_output, LAMBDA o : ~IsBlank(o)))
    IN  IF output_text = <<>> THEN None
        ELSE Str(Replace(output_text, project_path))

\* ---------------------------------------------------------------- run_checks alone
\* the characters checker output is made of here: the ones the first workspace
\* path is made of, white space and the line break
Chars == {DirPath(1)[i] : i \in 1..Len(DirPath(1))} \cup Whitespace

\* the stdout of the three checkers: every text of up to MaxTotal characters,
\* cut in three at any two places
CommandOutputs ==
    {<<SubSeq(s, 1, i), SubSeq(s, i + 1, j), SubSeq(s, j + 1, Len(s))>> :
        <<s, i, j>> \in {t \in (UNION {[1..n -> Chars] : n \in 0..MaxTotal})
                                 \X (0..MaxTotal) \X (0..MaxTotal) :
                            t[2] <= t[3] /\ t[3] <= Len(t[1])}}

\* the calls run_checks(project_path, files) whose checkers then write command_output
Calls ==
    {[project_path |-> DirPath(r), command_output |-> o, called |-> FALSE, result |-> None] :
        r \in 1..MaxRequests, o \in CommandOutputs}

\* no call of run_checks is looked at alone
NoCall == [project_path |-> <<>>, command_output |-> <<>>, called |-> FALSE, result |-> None]

\* ---------------------------------------------------------------- payloads
\* the file lists a commit record may carry
CommitPool ==
    { [added |-> <<>>, modified |-> <<>>],
      [added |-> <<<<"a">>>>, modified |-> <<<<"a">>>>] }

NoCommit == [added |-> <<>>, modified |-> <<>>]

\* list(set([*commit["added"], *commit["modified"]]))
FileSet(c) ==
    {c.added[i] : i \in 1..Len(c.added)} \cup {c.modified[i] : i \in 1..Len(c.modified)}

\* data.get("commits", [])
GetCommits(d) == IF "commits" \in DOMAIN d THEN d.commits ELSE <<>>

Requests == 1..MaxRequests

\* event.data of a push delivered as request r: "rid" names the payload object,
\* "commits" may be missing, and holds up to MaxCommits records
PushData(r) ==
    {[rid |-> r]} \cup {[rid |-> r, commits |-> [i \in 1..n |-> [id |-> i]]] : n \in 0..MaxCommits}

NoData == [rid |-> 0]

\* what a request to POST /webhook may carry
Deliveries(r) ==
    {[sig_ok |-> TRUE, event |-> "ping", action |-> "", data |-> NoData]}
    \cup {[sig_ok |-> TRUE, event |-> "installation", action |-> a, data |-> NoData] :
            a \in {"created", "deleted"}}
    \cup {[sig_ok |-> FALSE, event |-> "push", action |-> "", data |-> [rid |-> r]]}
    \cup {[sig_ok |-> TRUE, event |-> "push", action |-> "", data |-> d] : d \in PushData(r)}

NoDelivery == [sig_ok |-> FALSE, event |-> "", action |-> "", data |-> NoData]

\* ---------------------------------------------------------------- state
VARIABLES
    req,            \* per request: delivery d, pc, status (0 = no response yet), puts
    running,        \* asyncio.run(main()) has not exited
    worker_queue,   \* app["worker_queue"]: the queued payloads, oldest first
    unfinished,     \* the queue's count of unfinished tasks
    wpc,            \* where the worker task is suspended
    data,           \* the worker's current payload
    ci,             \* index of the worker's current commit (1-based)
    commit,         \* the file lists of the current commit record
    missing,        \* the checker scripts absent when run_checks ran for the current commit
    project_path,   \* the current workspace (the rid it was cloned for), 0 when none
    output,         \* the value run_checks returned for the current commit
    scan,           \* run_checks for the current commit: "no", "returned", "raised"
    notes,          \* the slack_notify calls made for the current commit, in order
    dirs,           \* workspace directories on disk
    rm_pending,     \* shutil.rmtree calls handed to the executor, not yet run
    getLog,         \* rids in the order worker_queue.get() returned them
    scanLog,        \* <<rid, commit index>> in the order run_checks was executed
    rmLog,          \* rids in the order their rmtree was scheduled
    rc              \* one call of run_checks taken alone: its arguments and what it returned

vars == <<req, running, worker_queue, unfinished, wpc, data, ci, commit, missing, project_path,
          output, scan, notes, dirs, rm_pending, getLog, scanLog, rmLog, rc>>

ingressVars == <<req, running>>
workerVars == <<wpc, data, ci, commit, missing, project_path, output, scan, notes, dirs,
                rm_pending, getLog, scanLog, rmLog>>
pureVars == <<rc>>

\* the service as main() starts it: nothing received, the worker waiting on get()
InitService ==
    /\ req = [r \in Requests |-> [d |-> NoDelivery, pc |-> "new", status |-> 0, puts |-> 0]]
    /\ running = TRUE
    /\ worker_queue = <<>>
    /\ unfinished = 0
    /\ wpc = "get"
    /\ data = NoData
    /\ ci = 0
    /\ commit = NoCommit
    /\ missing = {}
    /\ project_path = 0
    /\ output = None
    /\ scan = "no"
    /\ notes = <<>>
    /\ dirs = {}
    /\ rm_pending = {}
    /\ getLog = <<>>
    /\ scanLog = <<>>
    /\ rmLog = <<>>

Init == InitService /\ rc = NoCall

\* ---------------------------------------------------------------- ingress
\* mutant of Callback: every event is routed to the push callback
CallbackEveryEventIsPush(d) == "push"

\* router.fetch(event): the callback registered for the event, if any
Callback(d) ==
    IF d.event = "push" THEN "push"
    ELSE IF d.event = "installation" /\ d.action = "created" THEN "repo_installation_added"
    ELSE "none"

\* the handler returns web.Response(status=...); the payload is let go
Respond(r, d, status) ==
    [req EXCEPT ![r].d = [d EXCEPT !.data = NoData], ![r].pc = "done", ![r].status = status]

\* mutant of Receive: the signature is not checked
ReceiveUnverified(r) ==
    /\ running
    /\ req[r].pc = "new"
    /\ \A q \in Requests : q < r => req[q].pc # "new"
    /\ \E d \in Deliveries(r) :
         req' = IF d.event = "ping" THEN Respond(r, d, 200)
                ELSE [req EXCEPT ![r].d = d, ![r].pc = "sleep"]
    /\ UNCHANGED <<running, worker_queue, unfinished>>
    /\ UNCHANGED <<workerVars, pureVars>>

\* a request arrives and its body is read; Event.from_http checks the
\* signature (a failure is caught: 500); ping is answered at once; any other
\* event suspends the handler in asyncio.sleep(1)
Receive(r) ==
    /\ running
    /\ req[r].pc = "new"
    /\ \A q \in Requests : q < r => req[q].pc # "new"
    /\ \E d \in Deliveries(r) :
         req' = IF ~d.sig_ok THEN Respond(r, d, 500)
                ELSE IF d.event = "ping" THEN Respond(r, d, 200)
                ELSE [req EXCEPT ![r].d = d, ![r].pc = "sleep"]
    /\ UNCHANGED <<running, worker_queue, unfinished>>
    /\ UNCHANGED <<workerVars, pureVars>>

\* mutant of push: the queue has a capacity of one and put_nowait on a full
\* queue does not complete
pushBounded(r) ==
    /\ Len(worker_queue) < 1
    /\ worker_queue' = Append(worker_queue, req[r].d.data)
    /\ unfinished' = unfinished + 1

\* the push callback: app["worker_queue"].put_nowait(event.data)
push(r) ==
    /\ worker_queue' = Append(worker_queue, req[r].d.data)
    /\ unfinished' = unfinished + 1

\* mutant of Dispatch: the handler suspends once more between put_nowait and
\* its response
DispatchAwaitsAfterPut(r) ==
    /\ running
    /\ req[r].pc = "sleep"
    /\ CASE Callback(req[r].d) = "push" ->
              /\ push(r)
              /\ req' = [req EXCEPT ![r].pc = "installing", ![r].puts = @ + 1]
         [] Callback(req[r].d) = "repo_installation_added" ->
              /\ req' = [req EXCEPT ![r].pc = "installing"]
              /\ UNCHANGED <<worker_queue, unfinished>>
         [] OTHER ->
              /\ req' = Respond(r, req[r].d, 200)
              /\ UNCHANGED <<worker_queue, unfinished>>
    /\ UNCHANGED running
    /\ UNCHANGED <<workerVars, pureVars>>

\* mutant of Dispatch: an event without a callback is an error
DispatchUnknownIsError(r) ==
    /\ running
    /\ req[r].pc = "sleep"
    /\ CASE Callback(req[r].d) = "push" ->
              /\ push(r)
              /\ req' = [Respond(r, req[r].d, 200) EXCEPT ![r].puts = @ + 1]
         [] Callback(req[r].d) = "repo_installation_added" ->
              /\ req' = [req EXCEPT ![r].pc = "installing"]
              /\ UNCHANGED <<worker_queue, unfinished>>
         [] OTHER ->
              /\ req' = Respond(r, req[r].d, 500)
              /\ UNCHANGED <<worker_queue, unfinished>>
    /\ UNCHANGED running
    /\ UNCHANGED <<workerVars, pureVars>>

\* asyncio.sleep(1) is over: router.dispatch runs the callback; a callback that
\* does not suspend is followed by the 200 response in the same step
Dispatch(r) ==
    /\ running
    /\ req[r].pc = "sleep"
    /\ CASE Callback(req[r].d) = "push" ->
              /\ push(r)
              /\ req' = [Respond(r, req[r].d, 200) EXCEPT ![r].puts = @ + 1]
         [] Callback(req[r].d) = "repo_installation_added" ->
              /\ req' = [req EXCEPT ![r].pc = "installing"]
              /\ UNCHANGED <<worker_queue, unfinished>>
         [] OTHER ->
              /\ req' = Respond(r, req[r].d, 200)
              /\ UNCHANGED <<worker_queue, unfinished>>
    /\ UNCHANGED running
    /\ UNCHANGED <<workerVars, pureVars>>

\* the installation callback's GitHub calls complete (200), or one of them
\* raises and the handler's except clause answers 500
repo_installation_added(r) ==
    /\ running
    /\ req[r].pc = "installing"
    /\ \E status \in {200, 500} : req' = Respond(r, req[r].d, status)
    /\ UNCHANGED <<running, worker_queue, unfinished>>
    /\ UNCHANGED <<workerVars, pureVars>>

\* the worker task has raised: gather() re-raises in main(), asyncio.run()
\* cancels every handler still suspended and the service is gone
MainExit ==
    /\ running
    /\ wpc = "dead"
    /\ running' = FALSE
    /\ req' = [r \in Requests |->
                 IF req[r].pc \in {"sleep", "installing"}
                 THEN [req[r] EXCEPT !.pc = "cancelled", !.d.data = NoData] ELSE req[r]]
    /\ UNCHANGED <<worker_queue, unfinished>>
    /\ UNCHANGED <<workerVars, pureVars>>

\* ---------------------------------------------------------------- worker
Commits == GetCommits(data)

\* an uncaught exception leaves the worker coroutine: the task is finished
Die ==
    /\ wpc' = "dead"
    /\ UNCHANGED <<data, ci, project_path, rm_pending, rmLog, unfinished>>

\* mutant of Advance: the workspace is never handed to rmtree
AdvanceNoTeardown ==
    IF ci < Len(Commits)
    THEN /\ wpc' = "resolve"
         /\ ci' = ci + 1
         /\ UNCHANGED <<data, project_path, rm_pending, rmLog, unfinished>>
    ELSE /\ wpc' = "get"
         /\ unfinished' = unfinished - 1
         /\ data' = NoData
         /\ ci' = 0
         /\ project_path' = 0
         /\ UNCHANGED <<rm_pending, rmLog>>

\* mutant of Advance: the job is let go of after its first commit
AdvanceAfterFirst ==
    /\ wpc' = "get"
    /\ rm_pending' = rm_pending \cup {project_path}
    /\ rmLog' = Append(rmLog, data.rid)
    /\ unfinished' = unfinished - 1
    /\ data' = NoData
    /\ ci' = 0
    /\ project_path' = 0

\* mutant of Advance: rmtree is handed to the executor inside the for-body
AdvanceTeardownEarly ==
    IF ci < Len(Commits)
    THEN /\ wpc' = "resolve"
         /\ ci' = ci + 1
         /\ rm_pending' = rm_pending \cup {project_path}
         /\ rmLog' = Append(rmLog, data.rid)
         /\ UNCHANGED <<data, project_path, unfinished>>
    ELSE /\ wpc' = "get"
         /\ rm_pending' = rm_pending \cup {project_path}
         /\ rmLog' = Append(rmLog, data.rid)
         /\ unfinished' = unfinished - 1
         /\ data' = NoData
         /\ ci' = 0
         /\ project_path' = 0

\* the end of the for-body: the next commit's lookup is submitted, or, after the
\* last commit, rmtree is handed to the executor (not awaited) and task_done()
\* is called before the loop suspends in get() again
Advance ==
    IF ci < Len(Commits)
    THEN /\ wpc' = "resolve"
         /\ ci' = ci + 1
         /\ UNCHANGED <<data, project_path, rm_pending, rmLog, unfinished>>
    ELSE /\ wpc' = "get"
         /\ rm_pending' = rm_pending \cup {project_path}
         /\ rmLog' = Append(rmLog, data.rid)
         /\ unfinished' = unfinished - 1
         /\ data' = NoData
         /\ ci' = 0
         /\ project_path' = 0

\* mutant of Get: task_done() is not called for a payload without commits
GetEmptyNeverDone ==
    /\ wpc = "get"
    /\ worker_queue # <<>>
    /\ worker_queue' = Tail(worker_queue)
    /\ getLog' = Append(getLog, Head(worker_queue).rid)
    /\ IF GetCommits(Head(worker_queue)) # <<>>
       THEN /\ wpc' = "clone"
            /\ data' = Head(worker_queue)
       ELSE /\ wpc' = "get"
            /\ data' = NoData
    /\ commit' = NoCommit
    /\ missing' = {}
    /\ output' = None
    /\ scan' = "no"
    /\ notes' = <<>>
    /\ UNCHANGED <<ci, project_path, dirs, rm_pending, scanLog, rmLog, unfinished>>
    /\ UNCHANGED <<ingressVars, pureVars>>

\* mutant of Get: the newest payload is taken (a stack, not a queue)
GetNewest ==
    /\ wpc = "get"
    /\ worker_queue # <<>>
    /\ worker_queue' = SubSeq(worker_queue, 1, Len(worker_queue) - 1)
    /\ getLog' = Append(getLog, worker_queue[Len(worker_queue)].rid)
    /\ IF GetCommits(worker_queue[Len(worker_queue)]) # <<>>
       THEN /\ wpc' = "clone"
            /\ data' = worker_queue[Len(worker_queue)]
            /\ UNCHANGED unfinished
       ELSE /\ wpc' = "get"
            /\ data' = NoData
            /\ unfinished' = unfinished - 1
    /\ commit' = NoCommit
    /\ missing' = {}
    /\ output' = None
    /\ scan' = "no"
    /\ notes' = <<>>
    /\ UNCHANGED <<ci, project_path, dirs, rm_pending, scanLog, rmLog>>
    /\ UNCHANGED <<ingressVars, pureVars>>

\* worker_queue.get() returns the oldest payload; with commits the clone is
\* submitted, without them task_done() is called right away
Get ==
    /\ wpc = "get"
    /\ worker_queue # <<>>
    /\ worker_queue' = Tail(worker_queue)
    /\ getLog' = Append(getLog, Head(worker_queue).rid)
    /\ IF GetCommits(Head(worker_queue)) # <<>>
       THEN /\ wpc' = "clone"
            /\ data' = Head(worker_queue)
            /\ UNCHANGED unfinished
       ELSE /\ wpc' = "get"
            /\ data' = NoData
            /\ unfinished' = unfinished - 1
    /\ commit' = NoCommit
    /\ missing' = {}
    /\ output' = None
    /\ scan' = "no"
    /\ notes' = <<>>
    /\ UNCHANGED <<ci, project_path, dirs, rm_pending, scanLog, rmLog>>
    /\ UNCHANGED <<ingressVars, pureVars>>

\* clone_git_repo returned: a fresh directory holds the clone, and the lookup
\* of the first commit is submitted
CloneOk ==
    /\ wpc = "clone"
    /\ dirs' = dirs \cup {data.rid}
    /\ project_path' = data.rid
    /\ ci' = 1
    /\ wpc' = "resolve"
    /\ UNCHANGED <<data, commit, missing, output, scan, notes, rm_pending,
                   getLog, scanLog, rmLog>>
    /\ UNCHANGED <<worker_queue, unfinished>>
    /\ UNCHANGED <<ingressVars, pureVars>>

\* clone_git_repo raised, in mkdtemp or, the directory made, in Repo.clone_from
CloneRaise ==
    /\ wpc = "clone"
    /\ \E made \in BOOLEAN : dirs' = IF made THEN dirs \cup {data.rid} ELSE dirs
    /\ Die
    /\ UNCHANGED <<commit, missing, output, scan, notes, getLog, scanLog, worker_queue>>
    /\ UNCHANGED <<ingressVars, pureVars>>

\* repo.commit(commit["id"]) returned: the record's file lists are read and
\* run_checks is submitted
ResolveOk ==
    /\ wpc = "resolve"
    /\ wpc' = "scan"
    /\ \E c \in CommitPool : commit' = c
    /\ missing' = {}
    /\ output' = None
    /\ scan' = "no"
    /\ notes' = <<>>
    /\ UNCHANGED <<data, ci, project_path, dirs, rm_pending, getLog, scanLog, rmLog>>
    /\ UNCHANGED <<worker_queue, unfinished>>
    /\ UNCHANGED <<ingressVars, pureVars>>

\* repo.commit(commit["id"]) raised: nothing catches it
ResolveRaise ==
    /\ wpc = "resolve"
    /\ Die
    /\ UNCHANGED <<commit, missing, output, scan, notes, dirs, getLog, scanLog, worker_queue>>
    /\ UNCHANGED <<ingressVars, pureVars>>

\* mutant of RunChecksReturn: the report is sent without the `if output:` test
RunChecksReturnAlwaysNotify ==
    /\ wpc = "scan"
    /\ \E gone \in MissingChoices :
       \E command_output \in Stdouts(AbsFiles(DirPath(project_path), FileSet(commit)), gone) :
         /\ missing' = gone
         /\ output' = run_checks(DirPath(project_path), command_output)
    /\ wpc' = "notify"
    /\ scan' = "returned"
    /\ scanLog' = Append(scanLog, <<data.rid, ci>>)
    /\ UNCHANGED <<data, ci, project_path, rm_pending, rmLog, unfinished>>
    /\ UNCHANGED <<commit, notes, dirs, getLog, worker_queue>>
    /\ UNCHANGED <<ingressVars, pureVars>>

\* run_checks returned: a truthy report goes to slack_notify, anything else ends
\* the for-body
RunChecksReturn ==
    /\ wpc = "scan"
    /\ \E gone \in MissingChoices :
       \E command_output \in Stdouts(AbsFiles(DirPath(project_path), FileSet(commit)), gone) :
         LET result == run_checks(DirPath(project_path), command_output) IN
           /\ missing' = gone
           /\ output' = result
           /\ IF Truthy(result)
              THEN /\ wpc' = "notify"
                   /\ UNCHANGED <<data, ci, project_path, rm_pending, rmLog, unfinished>>
              ELSE Advance
    /\ scan' = "returned"
    /\ scanLog' = Append(scanLog, <<data.rid, ci>>)
    /\ UNCHANGED <<commit, notes, dirs, getLog, worker_queue>>
    /\ UNCHANGED <<ingressVars, pureVars>>

\* run_checks raised (subprocess.run could not start a checker): the except
\* clause calls slack_notify with the error
RunChecksRaise ==
    /\ wpc = "scan"
    /\ scan' = "raised"
    /\ scanLog' = Append(scanLog, <<data.rid, ci>>)
    /\ wpc' = "notify_error"
    /\ UNCHANGED <<data, ci, commit, missing, project_path, output, notes, dirs, rm_pending,
                   getLog, rmLog>>
    /\ UNCHANGED <<worker_queue, unfinished>>
    /\ UNCHANGED <<ingressVars, pureVars>>

\* slack_notify(app, message): the post returns, or raises and nothing catches it
NotifyFindings ==
    /\ wpc = "notify"
    /\ notes' = Append(notes, "findings")
    /\ \E delivered \in BOOLEAN : IF delivered THEN Advance ELSE Die
    /\ UNCHANGED <<commit, missing, output, scan, dirs, getLog, scanLog, worker_queue>>
    /\ UNCHANGED <<ingressVars, pureVars>>

\* slack_notify(app, f"An error occured: {ex}") followed by continue
NotifyError ==
    /\ wpc = "notify_error"
    /\ notes' = Append(notes, "error")
    /\ \E delivered \in BOOLEAN : IF delivered THEN Advance ELSE Die
    /\ UNCHANGED <<commit, missing, output, scan, dirs, getLog, scanLog, worker_queue>>
    /\ UNCHANGED <<ingressVars, pureVars>>

\* an executor thread runs a scheduled shutil.rmtree(project_path)
Rmtree(d) ==
    /\ d \in rm_pending
    /\ rm_pending' = rm_pending \ {d}
    /\ dirs' = dirs \ {d}
    /\ UNCHANGED <<wpc, data, ci, commit, missing, project_path, output, scan, notes,
                   getLog, scanLog, rmLog>>
    /\ UNCHANGED <<worker_queue, unfinished>>
    /\ UNCHANGED <<ingressVars, pureVars>>

\* ---------------------------------------------------------------- specification
Next ==
    \/ \E r \in Requests : Receive(r)
    \/ \E r \in Requests : Dispatch(r)
    \/ \E r \in Requests : repo_installation_added(r)
    \/ MainExit
    \/ Get
    \/ CloneOk
    \/ CloneRaise
    \/ ResolveOk
    \/ ResolveRaise
    \/ RunChecksReturn
    \/ RunChecksRaise
    \/ NotifyFindings
    \/ NotifyError
    \/ \E d \in rm_pending : Rmtree(d)

Spec == Init /\ [][Next]_vars

\* ---------------------------------------------------------------- run_checks alone
\* the service at rest and one call of run_checks about to be made
InitRC == InitService /\ rc \in Calls

\* the call returns
RunChecksCall ==
    /\ ~rc.called
    /\ rc' = [rc EXCEPT !.called = TRUE,
                        !.result = run_checks(rc.project_path, rc.command_output)]
    /\ UNCHANGED <<ingressVars, workerVars, worker_queue, unfinished>>

NextRC == RunChecksCall

SpecRC == InitRC /\ [][NextRC]_vars

\* ================================================================ claims
\* a validly signed push delivery
IsPushOk(d) == d.sig_ok /\ d.event = "push"

\* rids in arrival order: those already taken by the worker, then those queued
Arrival == getLog \o [i \in 1..Len(worker_queue) |-> worker_queue[i].rid]

IsPrefix(s, t) == Len(s) <= Len(t) /\ SubSeq(t, 1, Len(s)) = s

Count(x, s) == Cardinality({i \in 1..Len(s) : s[i] = x})

\* ---------------------------------------------------------------- C1
\* C1: the queue grows only by the dispatch step of a validly signed push, which
\* appends that request's payload; every step of a request that is a ping, an
\* installation event or fails signature verification leaves the queue (and its
\* unfinished count) as it was, and such a request never enqueues.
C1_QueueGrowsOnlyByValidPush ==
    /\ [](\A r \in Requests : ~IsPushOk(req[r].d) => req[r].puts = 0)
    /\ [][ /\ \A r \in Requests :
                (req'[r] # req[r] /\ ~IsPushOk(req'[r].d)) =>
                    (worker_queue' = worker_queue /\ unfinished' = unfinished)
           /\ Len(worker_queue') > Len(worker_queue) =>
                \E r \in Requests :
                    /\ IsPushOk(req[r].d)
                    /\ req[r].pc = "sleep" /\ req'[r].pc = "done"
                    /\ worker_queue' = Append(worker_queue, req[r].d.data) ]_vars

\* a job is queued, and an installation event and a badly signed request have
\* been answered without touching the queue
C1_Witness ==
    /\ worker_queue # <<>>
    /\ \E r \in Requests :
         /\ req[r].pc = "done" /\ req[r].puts = 0
         /\ ~req[r].d.sig_ok \/ req[r].d.event = "installation"

\* ---------------------------------------------------------------- C2
\* C2: a validly signed push whose handler has returned was enqueued exactly
\* once and answered 200, whatever the worker was doing; no request enqueues
\* more than once; and while the service runs, the dispatch step of a request
\* that has finished its sleep is enabled whatever the queue length (put_nowait
\* on the unbounded queue neither blocks nor fails).
C2_OneEnqueueNeverBlocks ==
    /\ [](\A r \in Requests :
            /\ req[r].puts <= 1
            /\ (IsPushOk(req[r].d) /\ req[r].pc = "done") =>
                    (req[r].puts = 1 /\ req[r].status = 200)
            /\ (running /\ req[r].pc = "sleep") => ENABLED Dispatch(r))
    /\ [][ \A r \in Requests :
             (IsPushOk(req[r].d) /\ req[r].pc = "sleep" /\ req'[r].pc = "done") =>
                 /\ worker_queue' = Append(worker_queue, req[r].d.data)
                 /\ req'[r].status = 200 ]_vars

\* two pushes were answered 200 while both jobs are still queued: the second
\* put found a non-empty queue and the worker has started neither
C2_Witness ==
    /\ Len(worker_queue) = 2
    /\ getLog = <<>>
    /\ \A i \in 1..2 : /\ req[worker_queue[i].rid].status = 200
                       /\ req[worker_queue[i].rid].puts = 1

\* ---------------------------------------------------------------- C3
\* C3: every payload the worker has taken from the queue (the step that starts
\* the clone), and so every payload it has cloned or scanned, belongs to a
\* request whose handler has already returned its 200 response.
C3_ResponseBeforeWork ==
    /\ \A i \in 1..Len(getLog) : req[getLog[i]].status = 200
    /\ \A i \in 1..Len(scanLog) : req[scanLog[i][1]].status = 200
    /\ data.rid # 0 => req[data.rid].status = 200

\* the worker is scanning a job whose request was answered
C3_Witness ==
    /\ wpc = "scan"
    /\ req[data.rid].status = 200

\* ---------------------------------------------------------------- C4
\* C4 as claimed: a request whose signature does not match is answered 4xx.
C4_BadSignatureIs4xx ==
    \A r \in Requests :
        (req[r].pc = "done" /\ ~req[r].d.sig_ok) => req[r].status \in 400..499

\* C4 as amended: a request whose signature does not match is answered 500 and
\* nothing further is done: its handler never reaches the sleep or a callback
\* and it never enqueues.
C4_BadSignatureIs500 ==
    \A r \in Requests :
        (req[r].pc # "new" /\ ~req[r].d.sig_ok) =>
            (req[r].pc = "done" /\ req[r].status = 500 /\ req[r].puts = 0)

C4_Witness == \E r \in Requests : req[r].pc = "done" /\ ~req[r].d.sig_ok

\* ---------------------------------------------------------------- C5
\* a validly signed event that is none of ping, push, installation(created)
IsUnhandled(d) == d.sig_ok /\ d.event # "ping" /\ Callback(d) = "none"

C6_ScanOrder ==
    /\ [](\A i, j \in 1..Len(scanLog) :
            i < j =>
              \E a, b \in 1..Len(Arrival) :
                 /\ Arrival[a] = scanLog[i][1]
                 /\ Arrival[b] = scanLog[j][1]
                 /\ a < b \/ (a = b /\ scanLog[i][2] < scanLog[j][2]))
    /\ [](\A i \in 1..Len(Arrival) : Count(Arrival[i], Arrival) = 1)
    /\ [](data.rid # 0 => Count(data.rid, [i \in 1..Len(scanLog) |-> scanLog[i][1]]) <= Len(Commits))
    /\ [][ /\ IsPrefix(Arrival, Arrival')
           /\ scanLog' # scanLog =>
                /\ scanLog' = Append(scanLog, <<data.rid, ci>>)
                /\ ci \in 1..Len(Commits) ]_vars

\* both commits of the first job were scanned, then a commit of the second
C6_Witness ==
    /\ Len(scanLog) >= 3
    /\ scanLog[1] = <<Arrival[1], 1>>
    /\ scanLog[2] = <<Arrival[1], 2>>
    /\ scanLog[3] = <<Arrival[2], 1>>

\* ---------------------------------------------------------------- C7
\* C7 as claimed: at most one workspace directory exists at any instant.
C7_AtMostOneDirectory == Cardinality(dirs) <= 1

\* C7 as amended: at any instant at most one workspace directory exists whose
\* removal has not been scheduled, and while the worker holds a workspace it
\* is that one; directories whose rmtree is scheduled but has not run may
\* exist beside it.
C7_AtMostOneUnscheduled ==
    /\ Cardinality(dirs \ rm_pending) <= 1
    /\ project_path # 0 => dirs \ rm_pending = {project_path}

\* the next job's clone is complete while the previous job's rmtree is pending
C7_Witness ==
    /\ project_path # 0
    /\ rm_pending # {}
    /\ Cardinality(dirs) = 2

\* ---------------------------------------------------------------- C8
\* the jobs whose clone succeeded: the one whose workspace the worker holds,
\* and those whose workspace was handed to rmtree
Cloned == {rmLog[i] : i \in 1..Len(rmLog)} \cup (IF project_path # 0 THEN {project_path} ELSE {})

\* C8 as claimed: no job's teardown is scheduled twice, and once the worker is
\* through with a job it cloned (it waits for the next job, or its task has
\* ended) that job's teardown has been scheduled exactly once.
C8_TeardownOncePerJob ==
    /\ \A r \in Requests : Count(r, rmLog) <= 1
    /\ wpc \in {"get", "dead"} => \A r \in Cloned : Count(r, rmLog) = 1

\* ---------------------------------------------------------------- C9
\* C9 as claimed: for a commit whose added and modified lists are both empty
\* no checker is run and no notification is sent.
C9_EmptyCommitSkipped ==
    FileSet(commit) = {} => (scan = "no" /\ notes = <<>>)

\* ---------------------------------------------------------------- C10
\* C10: for the commit the worker last took up: if run_checks returned a
\* truthy report, no notification precedes the findings post and, once the
\* worker is past that post (at the next commit, back at get, or ended),
\* exactly one findings notification was made; if run_checks returned without
\* findings, no notification was made.
C10_OneFindingsNotification ==
    /\ (scan = "returned" /\ Truthy(output)) =>
            notes = (IF wpc = "notify" THEN <<>> ELSE <<"findings">>)
    /\ (scan = "returned" /\ ~Truthy(output)) => notes = <<>>
    /\ wpc = "notify" => (scan = "returned" /\ Truthy(output))

\* the first commit's findings were posted once and the worker is about to
\* take up the second commit
C10_Witness ==
    /\ wpc = "resolve" /\ ci = 2
    /\ scan = "returned" /\ Truthy(output)
    /\ notes = <<"findings">>

\* ---------------------------------------------------------------- C11
\* C11 as claimed: when run_checks raised for the commit the worker last took
\* up, no notification precedes the error post, exactly one error notification
\* and no findings notification is made for that commit, and the job is not
\* aborted: the worker task does not end there but goes on with the later
\* commits and the teardown.
C11_ErrorNotifiedJobContinues ==
    scan = "raised" =>
        /\ notes = (IF wpc = "notify_error" THEN <<>> ELSE <<"error">>)
        /\ wpc # "dead"


\* C12: when a checker executable is missing, the scan of that commit yields an
\* orchestration error and not "no findings": once run_checks has been left for
\* a commit with a checker script absent, it was left by the error path, and no
\* findings decision was taken for that commit.
C12_MissingCheckerIsError ==
    (missing # {} /\ scan # "no") => (scan = "raised" /\ output = None)


\* C13: when the clone of a job's repository fails the worker remains
\* available: no step taken while the worker is cloning ends the worker task,
\* so the jobs enqueued after the failing one can still be dequeued.
C13_CloneFailureKeepsWorker ==
    [][(wpc = "clone") => (wpc' # "dead")]_vars

\* C14: a notification whose outbound request raises, for findings or for an
\* error, does not stop the pipeline: no step taken while the worker is sending
\* a notification ends the worker task.
C14_DeliveryFailureKeepsWorker ==
    [][(wpc \in {"notify", "notify_error"}) => (wpc' # "dead")]_vars


\* what one checker's output adds to the report: nothing when it is blank
Contribution(o) == IF IsBlank(o) THEN <<>> ELSE o

\* two texts one after the other, a line break between them when both are there
Sep(a, b) == IF a = <<>> THEN b ELSE IF b = <<>> THEN a ELSE a \o <<NEWLINE>> \o b

\* p occurs in s
Contains(s, p) == \E i \in 1..(Len(s) - Len(p) + 1) : SubSeq(s, i, i + Len(p) - 1) = p

\* C15 (as stated): run_checks aggregates in declaration order: the outputs
\* that are not empty follow one another with a line break between them (here up
\* to the removal of the workspace path), an empty output contributes nothing,
\* and when every output is empty the result is the absent value.
C15_NonEmptyOutputsJoined ==
    rc.called =>
        LET o == rc.command_output
            text == Sep(Sep(o[1], o[2]), o[3])
        IN  IF text = <<>> THEN rc.result = None
            ELSE rc.result = Str(Replace(text, rc.project_path))

\* C15 (amended): run_checks aggregates in declaration order: the outputs that
\* are not blank (empty or white space only) follow one another with a line
\* break between them, a blank output contributes nothing, and the workspace
\* path is then removed from that text; the result is the absent value exactly
\* when every output is blank.
C15_NonBlankOutputsJoined ==
    rc.called =>
        LET o == rc.command_output
            text == Sep(Sep(Contribution(o[1]), Contribution(o[2])), Contribution(o[3]))
        IN  /\ (rc.result = None) <=> (\A i \in 1..Len(CHECKS) : IsBlank(o[i]))
            /\ text # <<>> => rc.result = Str(Replace(text, rc.project_path))

\* a call returned where the first checker wrote white space only and the two
\* others wrote text: the report is the two texts and one line break
C15_Witness ==
    /\ rc.called
    /\ rc.command_output[1] # <<>> /\ IsBlank(rc.command_output[1])
    /\ ~IsBlank(rc.command_output[2]) /\ ~IsBlank(rc.command_output[3])
    /\ ~Contains(rc.command_output[2] \o rc.command_output[3], rc.project_path)
    /\ rc.result = Str(rc.command_output[2] \o <<NEWLINE>> \o rc.command_output[3])

\* C16: path-stripping is total and idempotent: the report run_checks returns
\* does not contain the workspace path, and removing the path from it again
\* leaves it unchanged.
C16_StripTotalIdempotent ==
    (rc.called /\ ~rc.result.is_none) =>
        /\ ~Contains(rc.result.text, rc.project_path)
        /\ Replace(rc.result.text, rc.project_path) = rc.result.text


\* C17: the worker is single-flight. A clone is started only by the worker
\* that holds no job and no workspace; the worker lets go of a job only in the
\* step that schedules that job's teardown, at the job's last commit and with
\* every commit of the job scanned; so the scans of one job are never separated
\* by a scan of another job, and a notification is sent for the job scanned last.
C17_SingleFlight ==
    [][ /\ (wpc' = "clone" /\ wpc # "clone") =>
               (wpc = "get" /\ data = NoData /\ project_path = 0 /\ data'.rid # 0)
        /\ (data.rid # 0 /\ data' # data) =>
               /\ ci = Len(Commits)
               /\ rmLog' = Append(rmLog, data.rid)
               /\ \A c \in 1..Len(Commits) : Count(<<data.rid, c>>, scanLog') = 1
               /\ data' = NoData
        /\ \A i, j, k \in 1..Len(scanLog') :
               (i < j /\ j < k /\ scanLog'[i][1] = scanLog'[k][1]) =>
                   scanLog'[j][1] = scanLog'[i][1]
        /\ (notes' # notes /\ notes' # <<>>) =>
               scanLog[Len(scanLog)] = <<data.rid, ci>>
      ]_vars

\* the clone of a second job is running after a first job of two commits was
\* scanned and its teardown scheduled
C17_Witness ==
    /\ wpc = "clone"
    /\ Len(rmLog) = 1
    /\ Count(<<rmLog[1], 2>>, scanLog) = 1

\* C18: every checker run of a job happens between the successful completion
\* of that job's clone and the scheduling of that job's workspace removal:
\* while run_checks runs, and when it ends, the worker's workspace is the
\* directory the clone of the current job returned, it is on disk, and its
\* removal has not been scheduled.
C18_ScanBetweenCloneAndTeardown ==
    [][ /\ (scanLog' # scanLog) =>
               /\ wpc = "scan"
               /\ scanLog' = Append(scanLog, <<data.rid, ci>>)
        /\ (wpc' = "scan") =>
               /\ project_path' # 0 /\ project_path' = data'.rid
               /\ project_path' \in dirs' \ rm_pending'
               /\ Count(data'.rid, rmLog') = 0
        /\ (wpc = "scan") =>
               /\ project_path \in dirs' \ rm_pending
               /\ Count(data.rid, rmLog) = 0
      ]_vars

\* a second job is being scanned after the first job was scanned and its
\* teardown scheduled
C18_Witness ==
    /\ wpc = "scan"
    /\ Len(rmLog) = 1
    /\ \E i \in 1..Len(scanLog) : scanLog[i][1] = rmLog[1]


\* C19: a failure to resolve a commit identifier in the workspace does not
\* abort the job: no step taken while the worker is looking a commit up ends
\* the worker task.
C19_ResolveFailureKeepsJob ==
    [][(wpc = "resolve") => (wpc' # "dead")]_vars

\* the put_nowait() calls made so far by the requests 1..n
RECURSIVE PutsUpTo(_)
PutsUpTo(n) == IF n = 0 THEN 0 ELSE req[n].puts + PutsUpTo(n - 1)

\* the jobs the worker has taken and let go of
Completed == Len(getLog) - (IF data.rid # 0 THEN 1 ELSE 0)

====
